---- MODULE Spec2Model ----
(***************************************************************************)
(* Model of app_gerador_relatorio.py: the worker thread running            *)
(* AutomacaoPPT.processar_imagens and the Tk consumer                      *)
(* (App.iniciar_processamento / App.verificar_queue) polling the queue.    *)
(*                                                                         *)
(* Atomicity: the worker's filesystem and deck operations are private to   *)
(* the worker thread, so each worker action groups them with the queue     *)
(* puts that follow; the end of the thread (is_alive becoming False) is an *)
(* action of its own.  verificar_queue is two actions: the get_nowait loop *)
(* and the is_alive test that follows it, so that the worker can run in    *)
(* between.                                                                *)
(***************************************************************************)
EXTENDS Integers, Sequences, FiniteSets

\* ---------------------------------------------------------------- bounds
\* Directory entries are 0..MaxFiles: entry 0 has no image extension,
\* entries 1..MaxFiles are image files whose names sort in numeric order.
MaxFiles == 3
\* layout_por_slide and len(posicoes) range over 0..MaxCap.
MaxCap == 2
\* Laplacian variances range over 0..MaxVariancia.
MaxVariancia == 2

\* config: [Configuracoes] limiar_desfocagem
limiar_desfocagem == 1

Entradas == 0 .. MaxFiles

VARIABLES
    layout_por_slide,   \* config: getint('Configuracoes','layout_por_slide')
    numPos,             \* len(json.loads(config['Configuracoes']['posicoes']))
    templateExiste,     \* os.path.exists(ficheiro_template)
    pastaExiste,        \* os.path.exists(pasta_origem) for the path of this run
    origem,             \* entries of the source directory
    processadas,        \* entries of pasta_processadas
    escrito,            \* this run has saved a deck into pasta_destino
    pc,                 \* position of the worker thread
    imagens_encontradas,\* sorted candidates of this run
    i,                  \* number of candidates already attempted
    prs,                \* the presentation: sequence of slides
    slide_atual,        \* index in prs of the current content slide, 0 = None
    contador_imagens_no_slide,
    fila,               \* self.queue
    enviadas,           \* every message the worker has put in this run
    resultado,          \* per entry: outcome of its attempt in this run
    desfocada,          \* verdict verificar_desfocagem gave for the last candidate attempted
    eventos,            \* steps of the last loop iteration, in program order
    btn_iniciar,        \* state of the start button
    pcC,                \* position of the consumer callback
    progresso,          \* self.progresso["value"]
    log_area,           \* lines shown in the status feed
    sobrepostas         \* a run was started while another still had file work to do

vars == <<layout_por_slide, numPos, templateExiste, pastaExiste, origem,
          processadas, escrito, pc, imagens_encontradas, i, prs, slide_atual,
          contador_imagens_no_slide, fila, enviadas, resultado, desfocada,
          eventos, btn_iniciar, pcC, progresso, log_area, sobrepostas>>

cfgVars == <<layout_por_slide, numPos, templateExiste>>
uiVars == <<btn_iniciar, pcC, progresso, log_area>>

\* ---------------------------------------------------------------- helpers
Msg(t, a) == [tipo |-> t, arg |-> a]

FINALIZADO == Msg("FINALIZADO", 0)

\* File name extension of a directory entry, as written on disk.
Extensao(e) == IF e = 0 THEN "txt" ELSE IF e % 2 = 1 THEN "JPG" ELSE "png"

\* str.lower() on the extensions in use.
Lower(s) == IF s = "JPG" THEN "jpg" ELSE s

ExtensoesReconhecidas == {"png", "jpg", "jpeg", "gif", "bmp"}

\* sorted(): ascending sequence of the elements of a finite set of integers.
RECURSIVE Sorted(_)
Sorted(S) ==
    IF S = {} THEN <<>>
    ELSE LET m == CHOOSE x \in S : \A y \in S : x <= y
         IN  <<m>> \o Sorted(S \ {m})

\* The listing filtered but left in an order other than ascending.
RECURSIVE Reverse(_)
Reverse(q) == IF q = <<>> THEN <<>> ELSE Reverse(Tail(q)) \o <<Head(q)>>

ListarImagensSemOrdenar(dir) ==
    Reverse(Sorted({f \in dir : Lower(Extensao(f)) \in ExtensoesReconhecidas}))

\* line 141: the candidates of a directory listing.
ListarImagens(dir) ==
    Sorted({f \in dir : Lower(Extensao(f)) \in ExtensoesReconhecidas})

\* Pairs (k, n) for which the double product (k / n) * 100 falls just below
\* the exact integer 100k/n, so that int() truncates one lower
\* (29 / 50 * 100 = 57.99999999999999); complete for n <= 59.
TruncaAbaixo == {<<29, 50>>}

\* The percentage computed from the 0-based index i = k - 1.
CalcularProgressoDeIndice(k, total) == (100 * (k - 1)) \div total

\* line 156: int(((i + 1) / total_imagens) * 100), k = i + 1.
CalcularProgresso(k, total) ==
    IF <<k, total>> \in TruncaAbaixo
    THEN ((100 * k) \div total) - 1
    ELSE (100 * k) \div total

\* A detector that reports no read error when cv2.imread gave nothing.
verificar_desfocagem_sem_erro(lido, variancia) ==
    IF ~lido THEN <<FALSE, FALSE>>
    ELSE IF variancia < limiar_desfocagem THEN <<TRUE, FALSE>>
    ELSE <<FALSE, FALSE>>

\* A detector that reports a blurry image as unreadable.
verificar_desfocagem_bloqueante(lido, variancia) ==
    IF ~lido THEN <<FALSE, TRUE>>
    ELSE IF variancia < limiar_desfocagem THEN <<TRUE, TRUE>>
    ELSE <<FALSE, FALSE>>

\* lines 74-90: returns <<desfocada, erro_leitura>>.  lido: cv2.imread gave
\* an image and nothing raised; variancia: variance of its Laplacian.
verificar_desfocagem(lido, variancia) ==
    IF ~lido THEN <<FALSE, TRUE>>
    ELSE IF variancia < limiar_desfocagem THEN <<TRUE, FALSE>>
    ELSE <<FALSE, FALSE>>

\* What the environment does to one candidate.  valida: Image.open + verify
\* succeed ("ok"), raise IOError/SyntaxError, or raise another Exception;
\* lido and variancia: see verificar_desfocagem; insere: add_picture
\* succeeds, raises an IOError (OSError) or another Exception; move:
\* shutil.move succeeds or raises (always an OSError, which is IOError).
\* Fields a failing earlier stage never lets the code read are fixed.
Ambientes ==
    [valida : {"IOError", "Exception"}, lido : {FALSE}, variancia : {0},
     insere : {"ok"}, move : {"ok"}]
    \cup [valida : {"ok"}, lido : {FALSE}, variancia : {0},
          insere : {"ok"}, move : {"ok"}]
    \cup [valida : {"ok"}, lido : {TRUE}, variancia : 0 .. MaxVariancia,
          insere : {"IOError", "Exception"}, move : {"ok"}]
    \cup [valida : {"ok"}, lido : {TRUE}, variancia : 0 .. MaxVariancia,
          insere : {"ok"}, move : {"ok", "IOError"}]

ContentSlide == [layout |-> 5, imagens |-> <<>>]
HeaderSlide == [layout |-> 0, imagens |-> <<>>]

\* The worker-local state one loop iteration reads and writes.
Local == [prs |-> prs, slide_atual |-> slide_atual,
          contador |-> contador_imagens_no_slide,
          origem |-> origem, processadas |-> processadas]

\* Outcome of one iteration: the new local state, the message put by an
\* except block (<<>> when none) and how the iteration ended.
Saida(st, msgs, res, desf) ==
    [st |-> st, msgs |-> msgs, res |-> res, desfocada |-> desf]

\* A slide allocated only while there is no current slide.
AlocarSlideUmaVez(st, cap) ==
    IF st.slide_atual = 0
    THEN [st EXCEPT !.prs = Append(st.prs, ContentSlide),
                    !.slide_atual = Len(st.prs) + 1]
    ELSE st

\* lines 169-172: a new content slide when the counter is a multiple of the
\* capacity (the caller has excluded capacity 0).
AlocarSlide(st, cap) ==
    IF st.contador % cap = 0
    THEN [st EXCEPT !.prs = Append(st.prs, ContentSlide),
                    !.slide_atual = Len(st.prs) + 1]
    ELSE st

\* line 178: add_picture on the current slide at slot index idx.
InserirImagem(st, f, idx) ==
    [st EXCEPT !.prs[st.slide_atual].imagens =
                   Append(st.prs[st.slide_atual].imagens, [img |-> f, slot |-> idx])]

\* line 183: shutil.move to the processed directory.
MoverFicheiro(st, f) ==
    [st EXCEPT !.origem = st.origem \ {f}, !.processadas = st.processadas \cup {f}]

\* A handler that also files the rejected candidate away.
ExceptIOErrorMovendo(st, f, res, desf) ==
    Saida(MoverFicheiro(st, f), <<Msg("ERRO: Ficheiro corrompido", f)>>, res, desf)

\* A handler that logs and puts nothing on the queue.
ExceptIOErrorCalado(st, f, res, desf) ==
    Saida(st, <<>>, res, desf)

\* lines 185-187: except (IOError, SyntaxError): the local state stays as the
\* try block left it.
ExceptIOError(st, f, res, desf) ==
    Saida(st, <<Msg("ERRO: Ficheiro corrompido", f)>>, res, desf)

\* lines 188-190: except Exception.
ExceptException(st, f, res, desf) ==
    Saida(st, <<Msg("ERRO inesperado com", f)>>, res, desf)

\* The except block that catches an exception of the given class.
Except(classe, st, f, res, desf) ==
    IF classe = "IOError" THEN ExceptIOError(st, f, res, desf)
    ELSE ExceptException(st, f, res, desf)

\* lines 160-190: the try block of one iteration and its except blocks.
\* res names the stage at which the iteration ended.
CorpoDoLoop(st, f, cap, npos, amb) ==
    LET vd == verificar_desfocagem(amb.lido, amb.variancia)
        borrada == vd[1]
        erro_leitura == vd[2]
    IN  IF amb.valida # "ok"
        THEN Except(amb.valida, st, f, "falha_validacao", FALSE)
        ELSE IF erro_leitura
        THEN Saida(st, <<>>, "erro_leitura", borrada)
        ELSE IF cap = 0
        THEN Except("Exception", st, f, "divisao_por_zero", borrada)
        ELSE LET st1 == AlocarSlide(st, cap)
                 idx == st.contador % cap
             IN  IF idx >= npos
                 THEN Except("Exception", st1, f, "sem_posicao", borrada)
                 ELSE IF amb.insere # "ok"
                 THEN Except(amb.insere, st1, f, "falha_insercao", borrada)
                 ELSE LET st2 == [InserirImagem(st1, f, idx)
                                     EXCEPT !.contador = st.contador + 1]
                      IN  IF amb.move # "ok"
                          THEN Except(amb.move, st2, f, "falha_movimento", borrada)
                          ELSE Saida(MoverFicheiro(st2, f), <<>>, "ok", borrada)

\* ---------------------------------------------------------------- Init
SemResultado == [f \in Entradas |-> "nenhum"]

Init ==
    /\ layout_por_slide \in 0 .. MaxCap
    /\ numPos \in 0 .. MaxCap
    /\ templateExiste \in BOOLEAN
    /\ pastaExiste = TRUE
    /\ origem \in {{}, {0}, Entradas}
    /\ processadas = {}
    /\ escrito = FALSE
    /\ pc = "inativo"
    /\ imagens_encontradas = <<>>
    /\ i = 0
    /\ prs = <<>>
    /\ slide_atual = 0
    /\ contador_imagens_no_slide = 0
    /\ fila = <<>>
    /\ enviadas = <<>>
    /\ resultado = SemResultado
    /\ desfocada = FALSE
    /\ eventos = <<>>
    /\ btn_iniciar = "normal"
    /\ pcC = "parado"
    /\ progresso = 0
    /\ log_area = <<>>
    /\ sobrepostas = FALSE

\* ---------------------------------------------------------------- worker
\* gui_queue.put of a sequence of messages.
Put(msgs) ==
    /\ fila' = fila \o msgs
    /\ enviadas' = enviadas \o msgs

\* The worker still has filesystem work (moves, save) ahead of it.
TrabalhoPendente == pc \in {"inicio", "layout", "loop", "persistir"}

\* threading.Thread.is_alive()
ThreadViva == pc \notin {"inativo", "terminado"}

\* An outer except block that reports the error and no end of run.
ErroCriticoSemSentinela ==
    /\ Put(<<Msg("ERRO CRITICO", 0)>>)
    /\ pc' = "retorno"

\* lines 204-208: the outer except block.
ErroCritico ==
    /\ Put(<<Msg("ERRO CRITICO", 0), FINALIZADO>>)
    /\ pc' = "retorno"

\* lines 96-118: resolve the folders, create the output folders, check that
\* the source folder and the template exist.  falha: a config key is missing
\* or os.makedirs raises.
ResolverPastas ==
    /\ pc = "inicio"
    /\ \E falha \in BOOLEAN :
        IF falha THEN ErroCritico
        ELSE IF ~pastaExiste
        THEN Put(<<Msg("ERRO: Pasta de origem nao encontrada", 0)>>) /\ pc' = "retorno"
        ELSE IF ~templateExiste
        THEN Put(<<Msg("ERRO: Ficheiro de template nao encontrado", 0)>>) /\ pc' = "retorno"
        ELSE Put(<<>>) /\ pc' = "layout"
    /\ UNCHANGED <<cfgVars, pastaExiste, origem, processadas, escrito,
                   imagens_encontradas, i, prs, slide_atual,
                   contador_imagens_no_slide, resultado, desfocada, eventos, uiVars,
                   sobrepostas>>

\* lines 120-150: read the layout settings, open the template, add the
\* header slide, list and sort the candidates.  falha: a setting cannot be
\* read or parsed, or the template cannot be opened.
AbrirModelo ==
    /\ pc = "layout"
    /\ \E falha \in BOOLEAN :
        IF falha
        THEN /\ ErroCritico
             /\ UNCHANGED <<prs, imagens_encontradas>>
        ELSE /\ prs' = <<HeaderSlide>>
             /\ imagens_encontradas' = ListarImagens(origem)
             /\ IF imagens_encontradas' = <<>>
                THEN Put(<<Msg("Nenhuma imagem encontrada para processar.", 0)>>)
                     /\ pc' = "retorno"
                ELSE Put(<<>>) /\ pc' = "loop"
    /\ i' = 0
    /\ slide_atual' = 0
    /\ contador_imagens_no_slide' = 0
    /\ UNCHANGED <<cfgVars, pastaExiste, origem, processadas, escrito,
                   resultado, desfocada, eventos, uiVars, sobrepostas>>

\* A loop that gives up at the first candidate that was not placed and moved.
DepoisDoFicheiroAbortando(res, feitos, total) ==
    IF res # "ok" THEN "retorno"
    ELSE IF feitos < total THEN "loop" ELSE "persistir"

\* line 152: the for loop goes on to the next candidate, or to the save
\* when the list is exhausted, whatever the outcome of the iteration.
DepoisDoFicheiro(res, feitos, total) ==
    IF feitos < total THEN "loop" ELSE "persistir"

\* The steps of the try block (lines 160-183) that were entered when the
\* iteration ended at stage res: validar (161-162), classificar (164),
\* inserir (169-181), mover (183).
Passos(res) ==
    IF res = "falha_validacao" THEN <<"validar">>
    ELSE IF res = "erro_leitura" THEN <<"validar", "classificar">>
    ELSE IF res \in {"divisao_por_zero", "sem_posicao", "falha_insercao"}
    THEN <<"validar", "classificar", "inserir">>
    ELSE <<"validar", "classificar", "inserir", "mover">>

\* An iteration that reports the candidate once its try block is over.
SequenciaDaIteracaoAnunciandoDepois(anuncio, corpo) == corpo \o anuncio

\* lines 155-190: the puts of lines 155-158 come before the try block of
\* line 160 and everything its except blocks put.
SequenciaDaIteracao(anuncio, corpo) == anuncio \o corpo

\* lines 152-190: one iteration of the loop.
ProcessarFicheiro ==
    /\ pc = "loop"
    /\ \E amb \in Ambientes :
        LET total == Len(imagens_encontradas)
            f == imagens_encontradas[i + 1]
            out == CorpoDoLoop(Local, f, layout_por_slide, numPos, amb)
        IN  /\ Put(SequenciaDaIteracao(
                    <<Msg("PROGRESSO", CalcularProgresso(i + 1, total)),
                      Msg("Processando", f)>>,
                    out.msgs))
            /\ eventos' = SequenciaDaIteracao(
                              <<"put PROGRESSO", "put Processando">>,
                              Passos(out.res) \o
                                  (IF out.msgs = <<>> THEN <<>> ELSE <<"put ERRO">>))
            /\ prs' = out.st.prs
            /\ slide_atual' = out.st.slide_atual
            /\ contador_imagens_no_slide' = out.st.contador
            /\ origem' = out.st.origem
            /\ processadas' = out.st.processadas
            /\ resultado' = [resultado EXCEPT ![f] = out.res]
            /\ desfocada' = out.desfocada
            /\ i' = i + 1
            /\ pc' = DepoisDoFicheiro(out.res, i + 1, total)
    /\ UNCHANGED <<cfgVars, pastaExiste, escrito, imagens_encontradas,
                   uiVars, sobrepostas>>

\* A save step that reports success before prs.save has returned.
PersistirAnunciandoAntes ==
    /\ pc = "persistir"
    /\ \E salva \in BOOLEAN :
        /\ escrito' = salva
        /\ Put(<<Msg("----", 0), Msg("PROCESSO CONCLUIDO COM SUCESSO!", 0),
                 Msg("Relatorio salvo em", 0), FINALIZADO>>
               \o (IF salva THEN <<>> ELSE <<Msg("ERRO CRITICO", 0), FINALIZADO>>))
        /\ pc' = "retorno"
    /\ UNCHANGED <<cfgVars, pastaExiste, origem, processadas,
                   imagens_encontradas, i, prs, slide_atual,
                   contador_imagens_no_slide, resultado, desfocada, eventos,
                   uiVars, sobrepostas>>

\* lines 192-202: save the deck and report success; a failing save goes to
\* the outer except block.
Persistir ==
    /\ pc = "persistir"
    /\ \E salva \in BOOLEAN :
        IF salva
        THEN /\ escrito' = TRUE
             /\ Put(<<Msg("----", 0), Msg("PROCESSO CONCLUIDO COM SUCESSO!", 0),
                      Msg("Relatorio salvo em", 0), FINALIZADO>>)
             /\ pc' = "retorno"
        ELSE /\ ErroCritico
             /\ UNCHANGED escrito
    /\ UNCHANGED <<cfgVars, pastaExiste, origem, processadas,
                   imagens_encontradas, i, prs, slide_atual,
                   contador_imagens_no_slide, resultado, desfocada, eventos, uiVars,
                   sobrepostas>>

\* processar_imagens returns: the thread is no longer alive.
Terminar ==
    /\ pc = "retorno"
    /\ pc' = "terminado"
    /\ UNCHANGED <<cfgVars, pastaExiste, origem, processadas, escrito,
                   imagens_encontradas, i, prs, slide_atual,
                   contador_imagens_no_slide, fila, enviadas, resultado,
                   desfocada, eventos, uiVars, sobrepostas>>

\* ---------------------------------------------------------------- consumer
\* lines 271-282: the button command; Tk runs it only while the button is
\* enabled.  existe: whether the folder typed in the entry exists.
iniciar_processamento ==
    /\ btn_iniciar = "normal"
    /\ btn_iniciar' = "disabled"
    /\ log_area' = <<>>
    /\ progresso' = 0
    /\ fila' = <<>>
    /\ enviadas' = <<>>
    /\ \E existe \in BOOLEAN : pastaExiste' = existe
    /\ sobrepostas' = (sobrepostas \/ TrabalhoPendente)
    /\ pc' = "inicio"
    /\ pcC' = "agendado"
    /\ escrito' = FALSE
    /\ resultado' = SemResultado
    /\ desfocada' = FALSE
    /\ eventos' = <<>>
    /\ imagens_encontradas' = <<>>
    /\ i' = 0
    /\ prs' = <<>>
    /\ slide_atual' = 0
    /\ contador_imagens_no_slide' = 0
    /\ UNCHANGED <<cfgVars, origem, processadas>>

\* Index of the first FINALIZADO in a sequence of messages, 0 when absent.
PrimeiroFinalizado(q) ==
    IF \E k \in 1 .. Len(q) : q[k] = FINALIZADO
    THEN CHOOSE k \in 1 .. Len(q) :
             q[k] = FINALIZADO /\ \A j \in 1 .. (k - 1) : q[j] # FINALIZADO
    ELSE 0

\* lines 288-296 applied to a run of messages holding no FINALIZADO.
RECURSIVE UltimoProgresso(_, _)
UltimoProgresso(q, atual) ==
    IF q = <<>> THEN atual
    ELSE UltimoProgresso(Tail(q),
                         IF Head(q).tipo = "PROGRESSO" THEN Head(q).arg ELSE atual)

Linhas(q) == SelectSeq(q, LAMBDA m : m.tipo # "PROGRESSO")

\* lines 285-298: the get_nowait loop, until queue.Empty or FINALIZADO.
verificar_queue_loop ==
    /\ pcC = "agendado"
    /\ LET k == PrimeiroFinalizado(fila)
           lidos == IF k = 0 THEN fila ELSE SubSeq(fila, 1, k - 1)
       IN  /\ progresso' = UltimoProgresso(lidos, progresso)
           /\ log_area' = log_area \o Linhas(lidos)
           /\ IF k = 0
              THEN /\ fila' = <<>>
                   /\ pcC' = "is_alive"
                   /\ UNCHANGED btn_iniciar
              ELSE /\ fila' = SubSeq(fila, k + 1, Len(fila))
                   /\ pcC' = "parado"
                   /\ btn_iniciar' = "normal"
    /\ UNCHANGED <<cfgVars, pastaExiste, origem, processadas, escrito, pc,
                   imagens_encontradas, i, prs, slide_atual,
                   contador_imagens_no_slide, enviadas, resultado, desfocada, eventos,
                   sobrepostas>>

\* A callback that reschedules itself without looking at the thread.
verificar_queue_is_alive_sem_teste ==
    /\ pcC = "is_alive"
    /\ pcC' = "agendado"
    /\ UNCHANGED <<cfgVars, pastaExiste, origem, processadas, escrito, pc,
                   imagens_encontradas, i, prs, slide_atual,
                   contador_imagens_no_slide, fila, enviadas, resultado,
                   desfocada, eventos, btn_iniciar, progresso, log_area,
                   sobrepostas>>

\* The is_alive test with its branches swapped.
verificar_queue_is_alive_trocado ==
    /\ pcC = "is_alive"
    /\ IF ~ThreadViva
       THEN pcC' = "agendado" /\ UNCHANGED btn_iniciar
       ELSE pcC' = "parado" /\ btn_iniciar' = "normal"
    /\ UNCHANGED <<cfgVars, pastaExiste, origem, processadas, escrito, pc,
                   imagens_encontradas, i, prs, slide_atual,
                   contador_imagens_no_slide, fila, enviadas, resultado,
                   desfocada, eventos, progresso, log_area, sobrepostas>>

\* lines 300-303: reschedule while the thread is alive, else re-enable.
verificar_queue_is_alive ==
    /\ pcC = "is_alive"
    /\ IF ThreadViva
       THEN pcC' = "agendado" /\ UNCHANGED btn_iniciar
       ELSE pcC' = "parado" /\ btn_iniciar' = "normal"
    /\ UNCHANGED <<cfgVars, pastaExiste, origem, processadas, escrito, pc,
                   imagens_encontradas, i, prs, slide_atual,
                   contador_imagens_no_slide, fila, enviadas, resultado,
                   desfocada, eventos, progresso, log_area, sobrepostas>>

Next ==
    \/ iniciar_processamento
    \/ ResolverPastas
    \/ AbrirModelo
    \/ ProcessarFicheiro
    \/ Persistir
    \/ Terminar
    \/ verificar_queue_loop
    \/ verificar_queue_is_alive

Spec == Init /\ [][Next]_vars

\* The worker thread runs to the end of processar_imagens (no step of it
\* blocks) and Tk runs every callback scheduled with after(); the user is
\* never obliged to press the button.
Worker == ResolverPastas \/ AbrirModelo \/ ProcessarFicheiro \/ Persistir \/ Terminar

Consumer == verificar_queue_loop \/ verificar_queue_is_alive

\* The application started with a configuration whose slot positions match
\* its capacity, the capacity being 0 or the largest one considered.
InitConfigurado ==
    /\ Init
    /\ layout_por_slide \in {0, MaxCap}
    /\ numPos = layout_por_slide

FairSpec ==
    /\ InitConfigurado
    /\ [][Next]_vars
    /\ WF_vars(Worker)
    /\ WF_vars(Consumer)

\* ---------------------------------------------------------------- deck views
\* The content slides of a presentation (those added with slide_layouts[5]).
SlidesDeConteudo(p) == SelectSeq(p, LAMBDA sl : sl.layout = 5)

RECURSIVE TotalDeImagens(_)
TotalDeImagens(p) ==
    IF p = <<>> THEN 0 ELSE Len(Head(p).imagens) + TotalDeImagens(Tail(p))

\* The files that have a picture on some slide.
ImagensNoDeck(p) ==
    {p[s].imagens[k].img : <<s, k>> \in
        {x \in (1 .. Len(p)) \X (1 .. MaxFiles) : x[2] <= Len(p[x[1]].imagens)}}

Teto(m, n) == (m + n - 1) \div n

Candidatas == {imagens_encontradas[k] : k \in 1 .. Len(imagens_encontradas)}

\* The messages of one kind among those the worker has put in this run.
DoTipo(t) == SelectSeq(enviadas, LAMBDA m : m.tipo = t)

Critico == Len(DoTipo("ERRO CRITICO")) > 0

\* ---------------------------------------------------------------- claims

\* C1: once the deck is saved, with a capacity N >= 1 and at least N slot
\* positions, the number of content slides equals ceil(M / N), M being the
\* number of pictures inserted, whatever the per-file outcomes were.
C1_SlidesIgualTeto ==
    (escrito /\ layout_por_slide >= 1 /\ numPos >= layout_por_slide)
        => Len(SlidesDeConteudo(prs))
               = Teto(TotalDeImagens(prs), layout_por_slide)

\* C2: one bad file never aborts the run: as soon as a candidate has been
\* attempted the worker is either in the loop with candidates left, or has
\* attempted every candidate of the sorted list and gone on to the save step
\* (after which it has reported the end of the run).
C2_UmFicheiroNaoAborta ==
    i > 0 =>
        \/ pc = "loop" /\ i < Len(imagens_encontradas)
                       /\ \A k \in 1 .. i : resultado[imagens_encontradas[k]] # "nenhum"
        \/ /\ pc \in {"persistir", "retorno", "terminado"}
           /\ i = Len(imagens_encontradas)
           /\ \A f \in Candidatas : resultado[f] # "nenhum"
           /\ pc # "persistir" => enviadas[Len(enviadas)] = FINALIZADO

\* C2 witness: the deck was saved although the first two candidates failed
\* at different stages, and the third was still placed.
C2_Witness ==
    /\ escrito
    /\ Len(imagens_encontradas) = 3
    /\ resultado[imagens_encontradas[1]] = "falha_insercao"
    /\ resultado[imagens_encontradas[2]] = "falha_validacao"
    /\ resultado[imagens_encontradas[3]] = "ok"

\* C3: a candidate whose structural validation failed in this run is still
\* in the source directory, is not in the processed directory and has no
\* picture in the deck.
C3_InvalidaFicaNaOrigem ==
    \A f \in Entradas :
        resultado[f] = "falha_validacao"
            => f \in origem /\ f \notin processadas /\ f \notin ImagensNoDeck(prs)

\* C3 witness: a deck was saved with a picture in it while another candidate
\* of the same run had failed validation.
C3_Witness ==
    /\ escrito
    /\ \E f \in Entradas : resultado[f] = "falha_validacao"
    /\ ImagensNoDeck(prs) # {}

\* C4: a run that finds no candidate writes no output file and puts the
\* "no images" message followed by FINALIZADO, the last message of the run.
C4_SemImagensTerminaComSentinela ==
    (pc = "terminado" /\ prs = <<HeaderSlide>> /\ imagens_encontradas = <<>>
        /\ ~Critico)
        => /\ ~escrito
           /\ enviadas = <<Msg("Nenhuma imagem encontrada para processar.", 0),
                           FINALIZADO>>

\* C5: with the source folder present and the template missing, the run ends
\* before the listing and before any move or write, and the sink gets one
\* error message about the template followed by FINALIZADO.
C5_TemplateAusenteTerminaComSentinela ==
    (pc = "terminado" /\ pastaExiste /\ ~templateExiste /\ ~Critico)
        => /\ prs = <<>> /\ imagens_encontradas = <<>>
           /\ resultado = SemResultado
           /\ ~escrito
           /\ enviadas = <<Msg("ERRO: Ficheiro de template nao encontrado", 0),
                           FINALIZADO>>

\* C6: the PROGRESSO values of a run are non-decreasing, lie in 0..100, and
\* the value is 100 for the last candidate of the sorted list and for no
\* earlier one.
C6_ProgressoMonotono ==
    LET progs == DoTipo("PROGRESSO")
    IN  \A k \in 1 .. Len(progs) :
            /\ progs[k].arg \in 0 .. 100
            /\ k > 1 => progs[k - 1].arg <= progs[k].arg
            /\ progs[k].arg = 100 <=> k = Len(imagens_encontradas)

\* C6 witness: a finished run of three candidates, the second one skipped,
\* whose last progress value is 100.
C6_Witness ==
    LET progs == DoTipo("PROGRESSO")
    IN  /\ pc = "terminado"
        /\ Len(progs) = 3
        /\ progs[3].arg = 100
        /\ resultado[imagens_encontradas[2]] = "erro_leitura"

\* C7: with capacity 0, or a number of slot positions different from the
\* capacity, no candidate is ever attempted and no deck is saved: the
\* configuration is rejected before the loop.
C7_CapacidadeZeroRejeitada ==
    (layout_por_slide = 0 \/ numPos # layout_por_slide)
        => i = 0 /\ ~escrito

\* C8: pictures are in ascending filename order: of two placed images the
\* smaller name is on an earlier slide, or on the same slide in an earlier
\* slot.
C8_OrdemCrescente ==
    \A s1 \in 1 .. Len(prs), s2 \in 1 .. Len(prs) :
        \A k1 \in 1 .. Len(prs[s1].imagens), k2 \in 1 .. Len(prs[s2].imagens) :
            prs[s1].imagens[k1].img < prs[s2].imagens[k2].img
                => \/ s1 < s2
                   \/ s1 = s2 /\ prs[s1].imagens[k1].slot < prs[s2].imagens[k2].slot

\* C8 witness: three pictures over two content slides, two of them sharing
\* a slide.
C8_Witness ==
    /\ TotalDeImagens(prs) = 3
    /\ Len(SlidesDeConteudo(prs)) = 2
    /\ \E s \in 1 .. Len(prs) : Len(prs[s].imagens) = 2

\* C9: the blur verdict does not block placement.  In the loop, for the next
\* candidate and every environment in which it passes validation and is read
\* by the detector, the iteration gives the same deck, counter, directories,
\* messages and outcome whatever the variance; and when insertion and move
\* succeed (capacity >= 1, a position configured for the slot) the candidate
\* is in the deck and in the processed directory.  After an iteration that
\* ended "ok" the candidate is placed and moved whatever its verdict.
C9_VereditoNaoBloqueia ==
    /\ pc = "loop" =>
        LET f == imagens_encontradas[i + 1]
        IN  \A a \in Ambientes, v \in 0 .. MaxVariancia :
                (a.valida = "ok" /\ a.lido) =>
                    LET oa == CorpoDoLoop(Local, f, layout_por_slide, numPos, a)
                        ob == CorpoDoLoop(Local, f, layout_por_slide, numPos,
                                          [a EXCEPT !.variancia = v])
                    IN  /\ oa.st = ob.st /\ oa.msgs = ob.msgs /\ oa.res = ob.res
                        /\ (/\ a.insere = "ok" /\ a.move = "ok" /\ layout_por_slide >= 1
                            /\ contador_imagens_no_slide % layout_por_slide < numPos)
                              => /\ oa.res = "ok"
                                 /\ f \in ImagensNoDeck(oa.st.prs)
                                 /\ f \in oa.st.processadas
                                 /\ f \notin oa.st.origem
    /\ (i > 0 /\ resultado[imagens_encontradas[i]] = "ok")
        => /\ imagens_encontradas[i] \in ImagensNoDeck(prs)
           /\ imagens_encontradas[i] \in processadas

\* C9 witness: the candidate just attempted was classified blurry and is in
\* the deck and in the processed directory, after one that was not blurry.
C9_Witness ==
    /\ i = 2
    /\ desfocada
    /\ resultado[imagens_encontradas[1]] = "ok"
    /\ resultado[imagens_encontradas[2]] = "ok"
    /\ imagens_encontradas[2] \in ImagensNoDeck(prs) \cap processadas

\* C10: no run is started while another still has file work to do: the start
\* button is enabled only when the worker has no move or save left and no
\* consumer callback is pending.
C10_GuardaDeReentrada ==
    /\ ~sobrepostas
    /\ btn_iniciar = "normal" => (~TrabalhoPendente /\ pcC = "parado")
    /\ TrabalhoPendente => btn_iniciar = "disabled"

\* C10 witness: a later run is at work (files were moved by an earlier one)
\* while the consumer is between its queue loop and its is_alive test.
C10_Witness ==
    /\ pc = "loop"
    /\ pcC = "is_alive"
    /\ processadas # {}
    /\ i = 0

\* The error messages of this run that name file f.
ErrosSobre(f) ==
    SelectSeq(enviadas, LAMBDA m : m.arg = f /\ m.tipo \in
                  {"ERRO: Ficheiro corrompido", "ERRO inesperado com"})

\* C11: every candidate skipped in this run (attempted and not placed and
\* moved) has an error message naming it among the messages put on the queue.
C11_TodoSaltoTemMensagem ==
    \A f \in Entradas :
        resultado[f] \notin {"nenhum", "ok"} => Len(ErrosSobre(f)) > 0

\* C12: after an exception outside the per-file loop the worker has put
\* exactly one critical error message, directly followed by FINALIZADO as
\* the end of the run's messages, processes no further candidate, and every
\* file it had moved is still in the processed directory.
C12_ErroForaDoLoopFalha ==
    Critico =>
        /\ pc \in {"retorno", "terminado"}
        /\ Len(DoTipo("ERRO CRITICO")) = 1
        /\ Len(enviadas) >= 2
        /\ enviadas[Len(enviadas) - 1] = Msg("ERRO CRITICO", 0)
        /\ enviadas[Len(enviadas)] = FINALIZADO
        /\ \A f \in Entradas :
               resultado[f] = "ok" => f \in processadas /\ f \notin origem

\* C12 witness: the save failed after a candidate had been moved, and the
\* thread has ended.
C12_Witness ==
    /\ Critico
    /\ pc = "terminado"
    /\ i = Len(imagens_encontradas)
    /\ \E f \in Entradas : resultado[f] = "ok" /\ f \in processadas

\* C13: a candidate that passes validation and that the detector cannot read
\* is skipped: the iteration leaves the deck, the slide cursor and both
\* directories as they were, for every state the loop can be in; and a
\* candidate so skipped is in the source directory, not in the processed
\* directory and not in the deck, while the loop goes on.
C13_ErroDeLeituraSalta ==
    /\ pc = "loop" =>
        LET f == imagens_encontradas[i + 1]
        IN  \A a \in Ambientes :
                (a.valida = "ok" /\ ~a.lido) =>
                    LET out == CorpoDoLoop(Local, f, layout_por_slide, numPos, a)
                    IN  /\ out.st = Local
                        /\ out.res = "erro_leitura"
                        /\ DepoisDoFicheiro(out.res, i + 1, Len(imagens_encontradas))
                               \in {"loop", "persistir"}
    /\ \A f \in Entradas :
           resultado[f] = "erro_leitura"
               => f \in origem /\ f \notin processadas /\ f \notin ImagensNoDeck(prs)

\* C13 witness: between two candidates that share a slide, one was skipped
\* on a detector read error and is still in the source directory.
C13_Witness ==
    /\ layout_por_slide = 2
    /\ Len(imagens_encontradas) = 3
    /\ resultado[imagens_encontradas[1]] = "ok"
    /\ resultado[imagens_encontradas[2]] = "erro_leitura"
    /\ resultado[imagens_encontradas[3]] = "ok"
    /\ Len(SlidesDeConteudo(prs)) = 1
    /\ imagens_encontradas[2] \in origem

PassosDoTry == <<"validar", "classificar", "inserir", "mover">>

Anuncios == {"put PROGRESSO", "put Processando"}

\* C14 (as claimed): in every iteration the steps validate, classify, place,
\* move come first and the candidate's progress event and status line are
\* put only after them.
C14_AnuncioDepoisDosPassos ==
    \A j \in 1 .. Len(eventos), k \in 1 .. Len(eventos) :
        (eventos[j] \notin Anuncios /\ eventos[j] # "put ERRO" /\ eventos[k] \in Anuncios)
            => j < k

\* C14 (amended): in every iteration the candidate's progress event and then
\* its status line are put first; after them come the steps validate,
\* classify, place, move, in that order up to the step that ends the
\* iteration (all four when the candidate is placed and moved), and last the
\* error line when an except block put one.
C14_AnuncioAntesDosPassos ==
    i > 0 =>
        LET n == Len(eventos)
            m == IF eventos[n] = "put ERRO" THEN n - 1 ELSE n
        IN  /\ n >= 3
            /\ eventos[1] = "put PROGRESSO"
            /\ eventos[2] = "put Processando"
            /\ m - 2 \in 1 .. 4
            /\ SubSeq(eventos, 3, m) = SubSeq(PassosDoTry, 1, m - 2)
            /\ resultado[imagens_encontradas[i]] = "ok" => m - 2 = 4
            /\ LET e == enviadas
                   base == Len(e) - (IF pc \in {"retorno", "terminado"}
                                     THEN (IF Critico THEN 2 ELSE 4) ELSE 0)
                          - (n - m)
               IN  /\ e[base - 1].tipo = "PROGRESSO"
                   /\ e[base] = Msg("Processando", imagens_encontradas[i])

\* C14 witness: an iteration that went through all four steps after its
\* announcement, while an earlier one had ended in an error line.
C14_Witness ==
    /\ i = 2
    /\ eventos = <<"put PROGRESSO", "put Processando",
                   "validar", "classificar", "inserir", "mover">>
    /\ resultado[imagens_encontradas[1]] = "falha_insercao"
    /\ imagens_encontradas[2] \in processadas

\* The pictures of a deck in slide order.
RECURSIVE Aplanar(_)
Aplanar(p) == IF p = <<>> THEN <<>> ELSE Head(p).imagens \o Aplanar(Tail(p))

\* C15: with a capacity N >= 1 and N slot positions, the j-th picture
\* inserted is at slot (j - 1) mod N, it is on the slide that was current
\* when it was inserted (the last content slide at that moment), and no
\* content slide holds more than N pictures.
C15_SlotDoJEsimo ==
    (layout_por_slide >= 1 /\ numPos = layout_por_slide) =>
        LET fotos == Aplanar(prs)
        IN  /\ \A j \in 1 .. Len(fotos) :
                   fotos[j].slot = (j - 1) % layout_por_slide
            /\ \A sl \in 1 .. Len(prs) :
                   Len(prs[sl].imagens) <= layout_por_slide
            /\ contador_imagens_no_slide = Len(fotos)
            /\ Len(fotos) > 0 =>
                   /\ slide_atual = Len(prs)
                   /\ \A sl \in 1 .. Len(prs) :
                          (sl < Len(prs) /\ prs[sl].imagens # <<>>)
                              => Len(prs[sl].imagens) = layout_por_slide

\* C15 witness: capacity 2 with 2 positions; an insertion failed in between
\* and two pictures sit in slots 0 and 1 of one slide.
C15_Witness ==
    /\ layout_por_slide = 2
    /\ numPos = 2
    /\ Len(imagens_encontradas) = 3
    /\ resultado[imagens_encontradas[2]] = "falha_insercao"
    /\ Len(Aplanar(prs)) = 2
    /\ \E sl \in 1 .. Len(prs) : Len(prs[sl].imagens) = 2

\* C16: when the move fails after the picture was inserted, the picture is
\* in the deck, the counter has advanced by one, the file is still in the
\* source directory and not in the processed one, the except block puts an
\* error line naming the file and the loop goes on; afterwards no two
\* pictures of a slide share a slot.
C16_FalhaAoMoverDepoisDeInserir ==
    /\ pc = "loop" =>
        LET f == imagens_encontradas[i + 1]
        IN  \A a \in Ambientes :
                (/\ a.valida = "ok" /\ a.lido /\ a.insere = "ok" /\ a.move # "ok"
                 /\ layout_por_slide >= 1
                 /\ contador_imagens_no_slide % layout_por_slide < numPos) =>
                    LET out == CorpoDoLoop(Local, f, layout_por_slide, numPos, a)
                    IN  /\ out.res = "falha_movimento"
                        /\ f \in ImagensNoDeck(out.st.prs)
                        /\ out.st.contador = contador_imagens_no_slide + 1
                        /\ out.st.origem = origem
                        /\ out.st.processadas = processadas
                        /\ Len(out.msgs) = 1
                        /\ out.msgs[1].arg = f
                        /\ out.msgs[1].tipo \in {"ERRO: Ficheiro corrompido",
                                                 "ERRO inesperado com"}
                        /\ DepoisDoFicheiro(out.res, i + 1, Len(imagens_encontradas))
                               \in {"loop", "persistir"}
    /\ \A f \in Entradas :
           resultado[f] = "falha_movimento"
               => /\ f \in ImagensNoDeck(prs)
                  /\ f \in origem
                  /\ f \notin processadas
                  /\ Len(ErrosSobre(f)) = 1
    /\ \A sl \in 1 .. Len(prs) :
           \A k1 \in 1 .. Len(prs[sl].imagens), k2 \in 1 .. Len(prs[sl].imagens) :
               k1 # k2 => prs[sl].imagens[k1].slot # prs[sl].imagens[k2].slot

\* C16 witness: the first candidate was inserted and could not be moved; the
\* next one took the following slot of the same slide and was moved.
C16_Witness ==
    /\ Len(imagens_encontradas) = 3
    /\ resultado[imagens_encontradas[1]] = "falha_movimento"
    /\ resultado[imagens_encontradas[2]] = "ok"
    /\ imagens_encontradas[1] \in origem
    /\ \E sl \in 1 .. Len(prs) :
           /\ Len(prs[sl].imagens) >= 2
           /\ prs[sl].imagens[1] = [img |-> imagens_encontradas[1], slot |-> 0]
           /\ prs[sl].imagens[2] = [img |-> imagens_encontradas[2], slot |-> 1]

\* The consumer stops: its callback ends without rescheduling itself.
ConsumerPara == pcC # "parado" /\ pcC' = "parado"

\* C17: under fair scheduling of the worker and the consumer, whenever a run
\* has been started the consumer eventually stops rescheduling
\* verificar_queue with the start button enabled again; and the consumer
\* stops only in a step that dequeues FINALIZADO or that finds the worker
\* thread no longer alive.
C17_ConsumidorAcabaPorParar ==
    /\ (btn_iniciar = "disabled") ~> (btn_iniciar = "normal" /\ pcC = "parado")
    /\ [][ConsumerPara =>
            /\ btn_iniciar' = "normal"
            /\ \/ pcC = "agendado" /\ PrimeiroFinalizado(fila) # 0
               \/ pcC = "is_alive" /\ ~ThreadViva]_vars

\* C17 witness: a run that returned early without the sentinel has ended
\* and the consumer has stopped and re-enabled the button.
C17_Witness ==
    /\ pc = "terminado"
    /\ Len(enviadas) > 0
    /\ Len(DoTipo("FINALIZADO")) = 0
    /\ pcC = "parado"
    /\ btn_iniciar = "normal"

\* C18: when the consumer is not polling, every message the worker has put
\* in the run has been dequeued and handled: the queue is empty, the status
\* feed holds every line put and the progress bar shows the last value put.
C18_NenhumaMensagemPerdida ==
    pcC = "parado" =>
        /\ fila = <<>>
        /\ log_area = SelectSeq(enviadas,
                                LAMBDA m : m.tipo \notin {"PROGRESSO", "FINALIZADO"})
        /\ progresso = UltimoProgresso(enviadas, 0)

\* C19: FINALIZADO is put at most once in a run, and once it is put it is
\* the last message of the run and the worker has no move and no save left.
C19_SentinelaUnicaEFinal ==
    /\ Len(DoTipo("FINALIZADO")) <= 1
    /\ Len(DoTipo("FINALIZADO")) = 1 =>
           /\ enviadas[Len(enviadas)] = FINALIZADO
           /\ pc \in {"retorno", "terminado"}
           /\ ~TrabalhoPendente

\* C19 witness: a run that saved its deck has ended with the sentinel as
\* its last message, which the consumer has dequeued.
C19_Witness ==
    /\ escrito
    /\ pc = "terminado"
    /\ Len(DoTipo("FINALIZADO")) = 1
    /\ enviadas[Len(enviadas)] = FINALIZADO
    /\ fila = <<>>
    /\ pcC = "parado"

====
